---- MODULE Spec2Model ----
(***************************************************************************)
(* KMeansOp of cytoflow (cytoflow/operations/kmeans.py): per-group k-means *)
(* clustering of the events of an experiment.  The module models the       *)
(* operation's configuration traits, its transient model and scale         *)
(* storage, the experiments a caller holds, and the calls estimate, apply, *)
(* default_view and the diagnostic views' plot.                            *)
(***************************************************************************)
EXTENDS Integers, Sequences, FiniteSets, TLC

VARIABLES
    name,           \* KMeansOp.name
    channels,       \* KMeansOp.channels       (a sequence of column names)
    scale,          \* KMeansOp.scale          (channel -> scale kind)
    num_clusters,   \* KMeansOp.num_clusters
    by,             \* KMeansOp.by             (a sequence of column names)
    _kmeans,        \* KMeansOp._kmeans        (group key -> model)
    _scale,         \* KMeansOp._scale         (channel -> scale instance)
    exps,           \* the experiments the caller holds, by reference
    view,           \* the diagnostic view default_view returned last
    call,           \* the last call made on the operation and its outcome
    ncalls,         \* number of calls made so far
    nedits          \* number of trait assignments made so far

vars == <<name, channels, scale, num_clusters, by, _kmeans, _scale, exps, view, call, ncalls, nedits>>

----------------------------------------------------------------------------
(* Bounds of the model *)

\* num_clusters ranges over 1..MaxClusters
MaxClusters == 3
\* calls (estimate, apply, default_view, plot) made in one behaviour
MaxCalls == 3
\* trait assignments made after construction in one behaviour
MaxEdits == 1
\* experiments returned by apply that the caller keeps a reference to
MaxDerived == 2
\* rows of the large experiment, whose column N has a value of its own in each row
BigRows == 101

----------------------------------------------------------------------------
(* Values *)

\* numpy's nan; channel values of the model are integers >= 0
NaN == -1

\* the magic number of the aggregation-metadata check
MaxUnique == 100

EmptyMap == [k \in {} |-> 0]

\* d[k] = v of a Python dict
Put(d, k, v) == [x \in DOMAIN d \cup {k} |-> IF x = k THEN v ELSE d[x]]

Range(s) == {s[i] : i \in DOMAIN s}

Names == {"", "Clust"}
ChannelLists == {<<>>, <<"X">>, <<"X", "Y">>, <<"Z">>}
ScaleKinds == {"linear", "log"}
ScaleDicts == {EmptyMap, [c \in {"X"} |-> "log"], [c \in {"Y"} |-> "log"]}
ByLists == {<<>>, <<"A">>, <<"A", "B">>, <<"S">>, <<"Q">>}
\* N and M are columns of the large experiment only
WideByLists == ByLists \cup {<<"N">>, <<"M">>}
Subsets == {"", "A == 1", "A == 9", "bad"}

\* util.get_default_scale(): the package-wide default, "linear" unless reset
default_scale == "linear"

\* the values metadata columns take, in pandas' sort order; "1", "2", "3"
\* stand for the integers of an integer column, "ab" and "c" are strings
ValueOrder == [i \in 1..BigRows |-> ToString(i)] \o <<"ab", "c">>

IsString(v) == v \in {"ab", "c"}

\* list(s) of a Python string: its characters
Chars(s) == IF s = "ab" THEN <<"a", "b">> ELSE <<s>>

Row(x, y, a, b, s) == [X |-> x, Y |-> y, A |-> a, B |-> b, S |-> s]

\* an experiment as imported: no statistics, no operation applied yet
Experiment(columns, rows) ==
    [columns |-> columns, data |-> rows, statistics |-> EmptyMap, history |-> <<>>]

\* the experiments the caller starts with
Exp1 ==
    Experiment({"X", "Y", "A", "B", "S"},
               << Row(1, 10, "1", "1", "ab"),
                  Row(100, 0, "1", "1", "ab"),
                  Row(0, 10, "2", "2", "c"),
                  Row(10, 100, "2", "2", "c") >>)

Exp2 ==
    Experiment({"X", "Y", "A", "B", "S"},
               << Row(1, 1, "1", "1", "c"),
                  Row(10, 10, "3", "1", "c") >>)

\* an experiment with one group key of BigRows values (N) and one of
\* MaxUnique values (M)
Exp3 ==
    Experiment({"X", "Y", "A", "B", "S", "N", "M"},
               [i \in 1..BigRows |->
                   [X |-> IF i % 2 = 0 THEN 1 ELSE 100, Y |-> 10, A |-> "1", B |-> "1", S |-> "c",
                    N |-> ToString(i), M |-> ToString(IF i > MaxUnique THEN MaxUnique ELSE i)]])

BaseExps == <<Exp1, Exp2>>

WideExps == <<Exp1, Exp2, Exp3>>

\* experiment is None
NoExp == 0

----------------------------------------------------------------------------
(* Errors *)

NoError == [type |-> "none", what |-> "", arg |-> ""]
OpError(what, arg) == [type |-> "CytoflowOpError", what |-> what, arg |-> arg]
ViewError(what, arg) == [type |-> "CytoflowViewError", what |-> what, arg |-> arg]
\* an exception of Python, numpy, pandas or sklearn that the operation lets through
PyError(type, what) == [type |-> type, what |-> what, arg |-> ""]

IsTyped(err) == err.type \in {"CytoflowOpError", "CytoflowViewError"}

----------------------------------------------------------------------------
(* Scales (cytoflow.utility): a scale instance is made by scale_factory for *)
(* one channel of one experiment; calling it transforms a value, inverse    *)
(* maps it back.                                                            *)

RECURSIVE Log10(_)
Log10(v) == IF v < 10 THEN 0 ELSE 1 + Log10(v \div 10)

\* 10 ** n; every power from 10 ** 9 on is taken to be 10 ** 9
RECURSIVE Pow10(_)
Pow10(n) == IF n <= 0 THEN 1 ELSE IF n >= 9 THEN 1000000000 ELSE 10 * Pow10(n - 1)

\* util.scale_factory(kind, experiment, channel = c); made is the call that made it
scale_factory(kind, c, made) == [kind |-> kind, channel |-> c, made |-> made]

\* self._scale[c](v): values outside the scale's domain become nan
ScaleCall(s, v) ==
    IF v = NaN THEN NaN
    ELSE IF s.kind = "log" THEN (IF v <= 0 THEN NaN ELSE Log10(v))
    ELSE v

\* self._scale[c].inverse(v)
ScaleInverse(s, v) ==
    IF v = NaN THEN NaN
    ELSE IF s.kind = "log" THEN Pow10(v)
    ELSE v

----------------------------------------------------------------------------
(* Grouping (pandas groupby) *)

\* experiment.data[b].unique(), sorted
Unique(e, b) ==
    LET present == {e.data[i][b] : i \in DOMAIN e.data}
    IN  SelectSeq(ValueOrder, LAMBDA v : v \in present)

\* every key combination of the by columns' values, in sort order
RECURSIVE KeyProduct(_, _)
KeyProduct(e, bys) ==
    IF bys = <<>> THEN << <<>> >>
    ELSE LET rest == KeyProduct(e, Tail(bys))
             vals == Unique(e, Head(bys))
             n == Len(rest)
         IN  [k \in 1..(Len(vals) * n) |->
                 <<vals[((k - 1) \div n) + 1]>> \o rest[((k - 1) % n) + 1]]

\* the key of the single group of groupby(lambda _: True).  Python's True
\* equals and hashes as the integer 1, so in a dict it is the key 1.
TrueKey == <<"1">>

\* the key of row i under the by columns: a scalar for one column (a
\* sequence of length 1 here), a tuple for several
RowKey(e, bys, i) == [j \in 1..Len(bys) |-> e.data[i][bys[j]]]

\* groupby.groups[group]: the positions of the group's rows
GroupIdx(e, bys, g) ==
    IF bys = <<>> THEN DOMAIN e.data
    ELSE {i \in DOMAIN e.data : RowKey(e, bys, i) = g}

\* the groups that iterating a groupby yields, in order: the observed ones
Groups(e, bys) ==
    IF bys = <<>> THEN (IF e.data = <<>> THEN <<>> ELSE <<TrueKey>>)
    ELSE SelectSeq(KeyProduct(e, bys), LAMBDA g : GroupIdx(e, bys, g) # {})

\* the row positions idx of e, ascending
Positions(e, idx) == SelectSeq([i \in DOMAIN e.data |-> i], LAMBDA i : i \in idx)

----------------------------------------------------------------------------
(* The clustering model (sklearn.cluster.MiniBatchKMeans) *)

\* MiniBatchKMeans(n_clusters = k), not fitted yet
NewModel(k, made) == [n_clusters |-> k, fitted |-> FALSE, centers |-> <<>>, made |-> made]

\* kmeans.fit(x): the models a fit may produce.  The library draws its
\* first centroids at random among the points of x; the centroids of the
\* fitted model are taken to be k points of x: the first k in order, or the
\* last k in reverse order.  x is a sequence of points, a point a sequence
\* of numbers.
Fit(m, x) ==
    { [m EXCEPT !.fitted = TRUE, !.centers = [c \in 1..m.n_clusters |-> x[pick[c]]]] :
        pick \in {[c \in 1..m.n_clusters |-> c], [c \in 1..m.n_clusters |-> Len(x) + 1 - c]} }

Dist2(p, q) ==
    LET RECURSIVE Sum(_)
        Sum(i) == IF i = 0 THEN 0 ELSE (p[i] - q[i]) * (p[i] - q[i]) + Sum(i - 1)
    IN  Sum(Len(p))

\* kmeans.predict of one point: the index (0-based) of the nearest centroid
Predict(m, p) ==
    CHOOSE c \in 0..(m.n_clusters - 1) :
        \A d \in 0..(m.n_clusters - 1) :
            \/ Dist2(m.centers[c + 1], p) < Dist2(m.centers[d + 1], p)
            \/ (Dist2(m.centers[c + 1], p) = Dist2(m.centers[d + 1], p) /\ c <= d)

----------------------------------------------------------------------------
(* Experiment (cytoflow.experiment) *)

\* len(experiment.data[b].unique())
NUnique(e, b) == Cardinality({e.data[i][b] : i \in DOMAIN e.data})

\* experiment.query(subset): a new experiment holding the rows that satisfy
\* the expression; ok is FALSE when the expression cannot be evaluated
Query(e, subset) ==
    IF subset = "A == 1" /\ "A" \in e.columns
        THEN [ok |-> TRUE, exp |-> [e EXCEPT !.data = SelectSeq(e.data, LAMBDA r : r.A = "1")]]
    ELSE IF subset = "A == 9" /\ "A" \in e.columns
        THEN [ok |-> TRUE, exp |-> [e EXCEPT !.data = <<>>]]
    ELSE [ok |-> FALSE, exp |-> e]

\* experiment.add_condition(name, "category", data): a new column
AddCondition(e, n, labels) ==
    [e EXCEPT !.columns = e.columns \cup {n},
              !.data = [i \in DOMAIN e.data |->
                           [f \in DOMAIN e.data[i] \cup {n} |->
                               IF f = n THEN labels[i] ELSE e.data[i][f]]]]

----------------------------------------------------------------------------
(* KMeansOp.estimate *)

\* the first element of a sequence that is in bads, as a one-element
\* sequence, or <<>>: a for loop that raises at the first offender
FirstBad(seq, bads) ==
    LET bad == SelectSeq(seq, LAMBDA c : c \in bads) IN IF bad = <<>> THEN <<>> ELSE <<Head(bad)>>

\* estimate_validation with the limit on a by column's values one lower
estimate_validation_at_limit(e) ==
    LET noch == FirstBad(channels, {c \in Range(channels) : c \notin e.columns})
        nosc == {c \in DOMAIN scale : c \notin Range(channels)}
        noby == FirstBad(by, {b \in Range(by) : b \notin e.columns \/ NUnique(e, b) >= MaxUnique})
    IN  IF Len(channels) = 0 THEN OpError("Must set at least one channel", "")
        ELSE IF noch # <<>> THEN OpError("Channel not found in the experiment", noch[1])
        ELSE IF nosc # {} THEN OpError("Scale set for channel, but it isn't in the experiment",
                                       CHOOSE c \in nosc : TRUE)
        ELSE IF noby # <<>> THEN
            (IF noby[1] \notin e.columns
                THEN OpError("Aggregation metadata not found in the experiment", noby[1])
                ELSE OpError("More than 100 unique values found for aggregation metadata", noby[1]))
        ELSE NoError

\* estimate's checks of channels, scale and by
estimate_validation(e) ==
    LET noch == FirstBad(channels, {c \in Range(channels) : c \notin e.columns})
        nosc == {c \in DOMAIN scale : c \notin Range(channels)}
        noby == FirstBad(by, {b \in Range(by) : b \notin e.columns \/ NUnique(e, b) > MaxUnique})
    IN  IF Len(channels) = 0 THEN OpError("Must set at least one channel", "")
        ELSE IF noch # <<>> THEN OpError("Channel not found in the experiment", noch[1])
        ELSE IF nosc # {} THEN OpError("Scale set for channel, but it isn't in the experiment",
                                       CHOOSE c \in nosc : TRUE)
        ELSE IF noby # <<>> THEN
            (IF noby[1] \notin e.columns
                THEN OpError("Aggregation metadata not found in the experiment", noby[1])
                ELSE OpError("More than 100 unique values found for aggregation metadata", noby[1]))
        ELSE NoError

\* self._scale after the loop that makes one scale per channel
estimate_scales(made) ==
    [c \in DOMAIN _scale \cup Range(channels) |->
        IF c \in Range(channels)
            THEN scale_factory(IF c \in DOMAIN scale THEN scale[c] ELSE default_scale, c, made)
            ELSE _scale[c]]

\* x = data_subset.loc[:, self.channels[:]] with every channel scaled: the
\* points of the rows at positions idx, in order
ScaledPoints(e, idx, scales) ==
    LET pos == Positions(e, idx)
    IN  [k \in 1..Len(pos) |->
            [j \in 1..Len(channels) |-> ScaleCall(scales[channels[j]], e.data[pos[k]][channels[j]])]]

\* np.isnan of any channel value of a point
IsNA(p) == \E j \in DOMAIN p : p[j] = NaN

\* estimate's loop over the groups from group i on: the outcomes it may have
RECURSIVE estimate_groups(_, _, _, _, _, _)
estimate_groups(e, gs, i, km, scales, made) ==
    IF i > Len(gs) THEN {[err |-> NoError, kmeans |-> km, scales |-> scales]}
    ELSE LET g == gs[i]
             idx == GroupIdx(e, by, g)
             x == SelectSeq(ScaledPoints(e, idx, scales), LAMBDA p : ~IsNA(p))
             new == NewModel(num_clusters, made)
         IN  IF idx = {}
                 THEN {[err |-> OpError("Group had no data", ""), kmeans |-> km, scales |-> scales]}
             ELSE IF Len(x) < num_clusters
                 THEN {[err |-> PyError("ValueError", "fit: fewer samples than clusters"),
                        kmeans |-> Put(km, g, new), scales |-> scales]}
             ELSE UNION {estimate_groups(e, gs, i + 1, Put(km, g, m), scales, made) : m \in Fit(new, x)}

\* estimate_raise for an estimate that empties its storage before its checks
estimate_raise_reset(err) == {[err |-> err, kmeans |-> EmptyMap, scales |-> EmptyMap]}

\* a check of estimate raises err: nothing has been assigned yet
estimate_raise(err) == {[err |-> err, kmeans |-> _kmeans, scales |-> _scale]}

\* estimate(experiment, subset): the outcomes the call may have, each the
\* error raised (or none) and self._kmeans and self._scale after the call
estimate(experiment, subset, made) ==
    LET unchanged(err) == estimate_raise(err)
    IN  IF experiment = NoExp THEN unchanged(OpError("No experiment specified", ""))
        ELSE IF num_clusters < 2 THEN unchanged(OpError("num_clusters must be >= 2", ""))
        ELSE IF estimate_validation(exps[experiment]) # NoError
            THEN unchanged(estimate_validation(exps[experiment]))
        ELSE LET q == Query(exps[experiment], subset)
                 e == IF subset # "" THEN q.exp ELSE exps[experiment]
             IN  IF subset # "" /\ ~q.ok
                     THEN unchanged(ViewError("Subset string isn't valid", subset))
                 ELSE IF subset # "" /\ Len(e.data) = 0
                     THEN unchanged(ViewError("Subset string returned no events", subset))
                 ELSE estimate_groups(e, Groups(e, by), 1, _kmeans, estimate_scales(made), made)

----------------------------------------------------------------------------
(* KMeansOp.apply *)

\* apply_validation without the check of the scale keys
apply_validation_no_scale_check(e) ==
    LET noch == FirstBad(channels, {c \in Range(channels) : c \notin e.columns})
        noby == FirstBad(by, {b \in Range(by) : b \notin e.columns \/ NUnique(e, b) > MaxUnique})
    IN  IF Len(channels) = 0 THEN OpError("Must set at least one channel", "")
        ELSE IF noch # <<>> THEN OpError("Channel not found in the experiment", noch[1])
        ELSE IF noby # <<>> THEN
            (IF noby[1] \notin e.columns
                THEN OpError("Aggregation metadata not found in the experiment", noby[1])
                ELSE OpError("More than 100 unique values found for aggregation metadata", noby[1]))
        ELSE NoError

\* apply's checks of channels, scale and by
apply_validation(e) ==
    LET noch == FirstBad(channels, {c \in Range(channels) : c \notin e.columns})
        nosc == {c \in DOMAIN scale : c \notin Range(channels)}
        noby == FirstBad(by, {b \in Range(by) : b \notin e.columns \/ NUnique(e, b) > MaxUnique})
    IN  IF Len(channels) = 0 THEN OpError("Must set at least one channel", "")
        ELSE IF noch # <<>> THEN OpError("Channel not found in the experiment", noch[1])
        ELSE IF nosc # {} THEN OpError("Scale set for channel, but it isn't in the experiment",
                                       CHOOSE c \in nosc : TRUE)
        ELSE IF noby # <<>> THEN
            (IF noby[1] \notin e.columns
                THEN OpError("Aggregation metadata not found in the experiment", noby[1])
                ELSE OpError("More than 100 unique values found for aggregation metadata", noby[1]))
        ELSE NoError

\* apply_name_check without the check for a column of that name
apply_name_check_unset_only(e) ==
    IF name = "" THEN OpError("You have to set the gate's name", "") ELSE NoError

\* apply's checks of name
apply_name_check(e) ==
    IF name = "" THEN OpError("You have to set the gate's name", "")
    ELSE IF name \in e.columns THEN OpError("Experiment already has a column named", name)
    ELSE NoError

\* "{}_None".format(self.name)
NoneLabel == name \o "_None"

\* event_assignments before the loop: every row "{name}_None"
InitialAssignments(e) == [i \in DOMAIN e.data |-> NoneLabel]

\* StatIndex over the key combinations of the groups only
StatIndex_observed(e) ==
    LET keys == IF by = <<>> THEN << <<>> >> ELSE Groups(e, by)
    IN  {[by |-> keys[k], Cluster |-> c, Channel |-> ch] :
            k \in DOMAIN keys, c \in 1..num_clusters, ch \in Range(channels)}

\* the index of centers_stat: by values x clusters x channels
StatIndex(e) ==
    LET keys == KeyProduct(e, by)
    IN  {[by |-> keys[k], Cluster |-> c, Channel |-> ch] :
            k \in DOMAIN keys, c \in 1..num_clusters, ch \in Range(channels)}

\* centers_stat before the loop: every entry empty (nan)
InitialStat(e) == [k \in StatIndex(e) |-> NaN]

\* PredictedStr with the cluster number not raised by one
PredictedStr_zero_based(p) ==
    IF p = -1 THEN NoneLabel
    ELSE IF p \in 0..(num_clusters - 1) THEN name \o "_" \o ToString(p)
    ELSE "(none)"

\* predicted_str of one row: p is the predicted cluster, -1 for a missing row
PredictedStr(p) ==
    IF p = -1 THEN NoneLabel
    ELSE IF p \in 0..(num_clusters - 1) THEN name \o "_" \o ToString(p + 1)
    ELSE "(none)"

\* the part of g that precedes the cluster number
StatGroup(group) ==
    IF Len(by) = 0 THEN <<>>
    ELSE IF Len(by) > 1 THEN group
    ELSE IF IsString(group[1]) THEN Chars(group[1])
    ELSE group

\* one pass of apply's loop, for group g: the error it raises (or none),
\* and event_assignments and centers_stat after it
apply_group(e, g, assign, stat) ==
    LET idx == GroupIdx(e, by, g)
        pos == Positions(e, idx)
        fail(err) == [err |-> err, assign |-> assign, stat |-> stat]
    IN  IF idx = {} THEN fail(OpError("Group had no data", ""))
        ELSE IF \E c \in Range(channels) : c \notin DOMAIN _scale
            THEN fail(PyError("KeyError", "self._scale[c]"))
        ELSE IF g \notin DOMAIN _kmeans
            THEN fail(PyError("KeyError", "self._kmeans[group]"))
        ELSE
        LET x == ScaledPoints(e, idx, _scale)
            kmeans == _kmeans[g]
            predicted == [k \in DOMAIN x |-> IF IsNA(x[k]) THEN -1 ELSE Predict(kmeans, x[k])]
            assigned == [i \in DOMAIN assign |->
                            IF i \in idx
                                THEN PredictedStr(predicted[CHOOSE k \in DOMAIN pos : pos[k] = i])
                                ELSE assign[i]]
            sg == StatGroup(g)
            centers == [k \in {[by |-> sg, Cluster |-> c, Channel |-> channels[j]] :
                                  c \in 1..num_clusters, j \in DOMAIN channels} |->
                           ScaleInverse(_scale[k.Channel],
                               kmeans.centers[k.Cluster][CHOOSE j \in DOMAIN channels : channels[j] = k.Channel])]
        IN  IF ~kmeans.fitted
                THEN fail(PyError("NotFittedError", "kmeans.predict"))
            ELSE IF \A k \in DOMAIN x : IsNA(x[k])
                THEN fail(PyError("ValueError", "kmeans.predict: no samples"))
            ELSE IF Len(kmeans.centers[1]) # Len(channels)
                THEN fail(PyError("ValueError", "kmeans.predict: number of features"))
            ELSE IF Len(sg) # Len(by)
                THEN fail(PyError("KeyError", "centers_stat.loc[g2]"))
            ELSE IF num_clusters > kmeans.n_clusters
                THEN fail(PyError("IndexError", "kmeans.cluster_centers_[c, cidx1]"))
            ELSE [err |-> NoError, assign |-> assigned,
                  stat |-> [k \in DOMAIN stat \cup DOMAIN centers |->
                               IF k \in DOMAIN centers THEN centers[k] ELSE stat[k]]]

\* apply_groups for a loop in which a group overwrites what the groups
\* before it wrote: the labels and the statistic are those of the last group
apply_groups_last_wins(e, gs, i, assign, stat) ==
    IF i > Len(gs) THEN [err |-> NoError, assign |-> assign, stat |-> stat]
    ELSE apply_group(e, gs[Len(gs)], InitialAssignments(e), InitialStat(e))

\* apply's loop over the groups gs, from group i on
RECURSIVE apply_groups(_, _, _, _, _)
apply_groups(e, gs, i, assign, stat) ==
    IF i > Len(gs) THEN [err |-> NoError, assign |-> assign, stat |-> stat]
    ELSE LET r == apply_group(e, gs[i], assign, stat)
         IN  IF r.err # NoError THEN r
             ELSE apply_groups(e, gs, i + 1, r.assign, r.stat)

\* the entry appended to the history: self.clone_traits(transient = lambda _: True)
clone_traits ==
    [name |-> name, channels |-> channels, scale |-> scale, num_clusters |-> num_clusters,
     by |-> by, _kmeans |-> _kmeans, _scale |-> _scale]

\* the experiment apply returns, made from a clone of e
new_experiment(e, assign, stat) ==
    LET added == AddCondition(e, name, assign)
    IN  [added EXCEPT !.statistics = Put(e.statistics, <<name, "centers">>, stat),
                      !.history = Append(e.history, clone_traits)]

\* apply(experiment): the error raised (or none) and the experiment returned
apply(experiment) ==
    LET fail(err) == [err |-> err, new |-> Experiment({}, <<>>)]
    IN  IF experiment = NoExp THEN fail(OpError("No experiment specified", ""))
        ELSE IF apply_name_check(exps[experiment]) # NoError
            THEN fail(apply_name_check(exps[experiment]))
        ELSE IF apply_validation(exps[experiment]) # NoError
            THEN fail(apply_validation(exps[experiment]))
        ELSE LET e == exps[experiment]
                 r == apply_groups(e, Groups(e, by), 1, InitialAssignments(e), InitialStat(e))
             IN  IF r.err # NoError THEN fail(r.err)
                 ELSE [err |-> NoError, new |-> new_experiment(e, r.assign, r.stat)]

\* apply_kmeans for an apply that fits the models again, to other centroids
apply_kmeans_refit(experiment) ==
    [g \in DOMAIN _kmeans |->
        [_kmeans[g] EXCEPT !.made = ncalls + 1,
                           !.centers = [c \in DOMAIN @ |-> @[Len(@) + 1 - c]]]]

\* self._kmeans after apply: apply reads it and never assigns to it
apply_kmeans(experiment) == _kmeans

\* apply_scale for an apply that makes the scales again
apply_scale_remade(experiment) ==
    [c \in DOMAIN _scale |-> scale_factory(_scale[c].kind, c, ncalls + 1)]

\* self._scale after apply: apply reads it and never assigns to it
apply_scale(experiment) == _scale

\* where the caller keeps the experiment apply returns: a new reference, or,
\* when it holds MaxDerived of them already, in place of one it drops
Imported == {r \in DOMAIN exps : exps[r].history = <<>>}

Derived == DOMAIN exps \ Imported

NewRef(experiment) ==
    IF Cardinality(Derived) < MaxDerived THEN Len(exps) + 1
    ELSE CHOOSE r \in Derived :
            /\ r # experiment
            /\ \A q \in Derived : q # experiment => q <= r

\* apply_exps for an apply that adds to the experiment passed in and
\* returns it
apply_exps_in_place(experiment, new) ==
    [r \in 1..(IF NewRef(experiment) > Len(exps) THEN Len(exps) + 1 ELSE Len(exps)) |->
        IF r \in {NewRef(experiment), experiment} THEN new ELSE exps[r]]

\* the experiments after a successful apply: the one passed in is left as
\* it was, the new one is a clone that carries the additions
apply_exps(experiment, new) ==
    [r \in 1..(IF NewRef(experiment) > Len(exps) THEN Len(exps) + 1 ELSE Len(exps)) |->
        IF r = NewRef(experiment) THEN new ELSE exps[r]]

----------------------------------------------------------------------------
(* KMeansOp.default_view, KMeans1DView.plot, KMeans2DView.plot *)

NoView == [kind |-> "none", channels |-> <<>>, scale |-> <<>>]

\* the channels keyword of default_view: "self" when it is not given
ViewChannels == {<<"self">>, <<"X">>, <<"Y">>}

\* default_view(channels = chs): the error raised (or none), the view
\* returned and self.scale after the call.  The scale keyword is not given,
\* so scale is self.scale itself, and filling in the defaults writes to it.
default_view(chs) ==
    LET cs == IF chs = <<"self">> THEN channels ELSE chs
        filled == [c \in DOMAIN scale \cup Range(cs) |->
                      IF c \in DOMAIN scale THEN scale[c] ELSE default_scale]
        fail(err, sc) == [err |-> err, view |-> NoView, scale |-> sc]
        nocs == FirstBad(cs, {c \in Range(cs) : c \notin Range(channels)})
        nosc == {c \in DOMAIN scale : c \notin Range(channels)}
    IN  IF nocs # <<>> THEN fail(ViewError("Channel isn't in the operation's channels", nocs[1]), scale)
        ELSE IF nosc # {}
            THEN fail(ViewError("Channel isn't in the operation's channels", CHOOSE c \in nosc : TRUE), scale)
        ELSE IF Len(cs) = 0
            THEN fail(ViewError("Must specify at least one channel for a default view", ""), filled)
        ELSE IF Len(cs) = 1
            THEN [err |-> NoError, scale |-> filled,
                  view |-> [kind |-> "1d", channels |-> cs, scale |-> <<filled[cs[1]]>>]]
        ELSE IF Len(cs) = 2
            THEN [err |-> NoError, scale |-> filled,
                  view |-> [kind |-> "2d", channels |-> cs, scale |-> <<filled[cs[1]], filled[cs[2]]>>]]
        ELSE fail(ViewError("Can't specify more than two channels for a default view", ""), filled)

\* plot of the 1D or 2D view: it hands self.op._kmeans and the channels'
\* entries of self.op._scale to the base view's plot
plot ==
    IF \E c \in Range(view.channels) : c \notin DOMAIN _scale
        THEN PyError("KeyError", "self.op._scale[channel]")
        ELSE NoError

\* self.op._kmeans and self.op._scale after plot: plot reads them
plot_kmeans == _kmeans

plot_scale == _scale

----------------------------------------------------------------------------
(* The state machine *)

\* call when the operation was just constructed, and after a trait was assigned
NoCall == [op |-> "new", experiment |-> NoExp, subset |-> "", err |-> NoError, ret |-> NoExp]

SetCall == [op |-> "set", experiment |-> NoExp, subset |-> "", err |-> NoError, ret |-> NoExp]

\* a configuration that estimate accepts for the caller's experiments
ValidConfig ==
    /\ name = "Clust"
    /\ channels \in {<<"X">>, <<"X", "Y">>}
    /\ scale \in {EmptyMap, [c \in {"X"} |-> "log"]}
    /\ num_clusters \in 2..MaxClusters
    /\ by \in {<<>>, <<"A">>, <<"A", "B">>, <<"S">>}

\* any configuration the traits accept
AnyConfig ==
    /\ name \in Names
    /\ channels \in ChannelLists
    /\ scale \in ScaleDicts
    /\ num_clusters \in 1..MaxClusters
    /\ by \in WideByLists

\* a KMeansOp as constructed: nothing estimated yet
Fresh ==
    /\ _kmeans = EmptyMap
    /\ _scale = EmptyMap
    /\ view = NoView
    /\ call = NoCall
    /\ ncalls = 0
    /\ nedits = 0

\* a KMeansOp after one call, estimate(Exp1) with channels = ["X"],
\* num_clusters = 2 and neither scale nor by set, and trait assignments since
Estimated ==
    /\ _kmeans = (TrueKey :> [n_clusters |-> 2, fitted |-> TRUE, centers |-> << <<1>>, <<100>> >>, made |-> 1])
    /\ _scale = [c \in {"X"} |-> scale_factory("linear", "X", 1)]
    /\ view = NoView
    /\ call = SetCall
    /\ ncalls = 1
    /\ nedits = 0

Init == ValidConfig /\ Fresh /\ exps = BaseExps

InitAny == AnyConfig /\ (Fresh \/ Estimated) /\ exps = WideExps

Config == <<name, channels, scale, num_clusters, by>>

Estimate(experiment, subset) ==
    /\ ncalls < MaxCalls
    /\ \E out \in estimate(experiment, subset, ncalls + 1) :
        /\ _kmeans' = out.kmeans
        /\ _scale' = out.scales
        /\ call' = [op |-> "estimate", experiment |-> experiment, subset |-> subset,
                    err |-> out.err, ret |-> NoExp]
    /\ ncalls' = ncalls + 1
    /\ UNCHANGED <<Config, exps, view, nedits>>

Apply(experiment) ==
    /\ ncalls < MaxCalls
    /\ LET out == apply(experiment)
       IN  /\ exps' = IF out.err = NoError THEN apply_exps(experiment, out.new) ELSE exps
           /\ call' = [op |-> "apply", experiment |-> experiment, subset |-> "", err |-> out.err,
                       ret |-> IF out.err = NoError THEN NewRef(experiment) ELSE NoExp]
    /\ _kmeans' = apply_kmeans(experiment)
    /\ _scale' = apply_scale(experiment)
    /\ ncalls' = ncalls + 1
    /\ UNCHANGED <<Config, view, nedits>>

DefaultView(chs) ==
    /\ ncalls < MaxCalls
    /\ LET out == default_view(chs)
       IN  /\ scale' = out.scale
           /\ view' = IF out.err = NoError THEN out.view ELSE view
           /\ call' = [op |-> "default_view", experiment |-> NoExp, subset |-> "",
                       err |-> out.err, ret |-> NoExp]
    /\ ncalls' = ncalls + 1
    /\ UNCHANGED <<name, channels, num_clusters, by, _kmeans, _scale, exps, nedits>>

Plot(experiment) ==
    /\ ncalls < MaxCalls
    /\ view # NoView
    /\ experiment # NoExp
    /\ call' = [op |-> "plot", experiment |-> experiment, subset |-> "", err |-> plot, ret |-> NoExp]
    /\ _kmeans' = plot_kmeans
    /\ _scale' = plot_scale
    /\ ncalls' = ncalls + 1
    /\ UNCHANGED <<Config, exps, view, nedits>>

\* assignments to the operation's traits between calls
SetName(n) ==
    /\ nedits < MaxEdits /\ n # name
    /\ name' = n
    /\ nedits' = nedits + 1
    /\ call' = SetCall
    /\ UNCHANGED <<channels, scale, num_clusters, by, _kmeans, _scale, exps, view, ncalls>>

SetChannels(chs) ==
    /\ nedits < MaxEdits /\ chs # channels
    /\ channels' = chs
    /\ nedits' = nedits + 1
    /\ call' = SetCall
    /\ UNCHANGED <<name, scale, num_clusters, by, _kmeans, _scale, exps, view, ncalls>>

SetScale(sc) ==
    /\ nedits < MaxEdits /\ sc # scale
    /\ scale' = sc
    /\ nedits' = nedits + 1
    /\ call' = SetCall
    /\ UNCHANGED <<name, channels, num_clusters, by, _kmeans, _scale, exps, view, ncalls>>

SetNumClusters(k) ==
    /\ nedits < MaxEdits /\ k # num_clusters
    /\ num_clusters' = k
    /\ nedits' = nedits + 1
    /\ call' = SetCall
    /\ UNCHANGED <<name, channels, scale, by, _kmeans, _scale, exps, view, ncalls>>

SetBy(bys) ==
    /\ nedits < MaxEdits /\ bys # by
    /\ by' = bys
    /\ nedits' = nedits + 1
    /\ call' = SetCall
    /\ UNCHANGED <<name, channels, scale, num_clusters, _kmeans, _scale, exps, view, ncalls>>

\* apply is given any experiment the caller holds (or None), estimate one
\* of those the caller started with (or None)
Calls ==
    \/ \E x \in {NoExp} \cup DOMAIN exps : Apply(x)
    \/ \E x \in {NoExp} \cup Imported, subset \in Subsets : Estimate(x, subset)
    \/ \E chs \in ViewChannels : DefaultView(chs)

Edits ==
    \/ \E n \in Names : SetName(n)
    \/ \E chs \in ChannelLists : SetChannels(chs)
    \/ \E sc \in ScaleDicts : SetScale(sc)
    \/ \E k \in 1..MaxClusters : SetNumClusters(k)
    \/ \E bys \in ByLists : SetBy(bys)

Next ==
    \/ Calls
    \/ Edits
    \/ Plot(1)

\* an operation constructed with a valid configuration, then any calls and
\* trait assignments within the bounds
Spec == Init /\ [][Next]_vars

\* an operation with any configuration, estimated before or not, and the
\* next call made on it
NextCall == call.op \in {"new", "set"} /\ Calls

SpecAny == InitAny /\ [][NextCall]_vars

----------------------------------------------------------------------------
(* Properties *)

\* the last call was an apply that returned an experiment
Applied == call.op = "apply" /\ call.err = NoError

\* the column that the apply just made added to the experiment it returned
AssignmentColumn == [i \in DOMAIN exps[call.ret].data |-> exps[call.ret].data[i][name]]

\* the centers statistic of the experiment that the apply just made returned
CentersStat == exps[call.ret].statistics[<<name, "centers">>]

\* row i of the experiment given to the last call has a channel value that
\* is nan after scaling
MissingRow(i) ==
    \E c \in Range(channels) : ScaleCall(_scale[c], exps[call.experiment].data[i][c]) = NaN

\* every stored model was fitted for the configured number of clusters
ModelsAsConfigured == \A g \in DOMAIN _kmeans : _kmeans[g].n_clusters = num_clusters

\* C1: when apply follows estimate under one configuration (every stored
\* model has num_clusters clusters), every row of the returned experiment is
\* labelled name_1 .. name_K or name_None, and it is labelled name_None
\* exactly when one of its channel values is nan after scaling.
C1_LabelsOfApply ==
    (Applied /\ ModelsAsConfigured) =>
        \A i \in DOMAIN AssignmentColumn :
            /\ AssignmentColumn[i] \in
                   {name \o "_" \o ToString(k) : k \in 1..num_clusters} \cup {name \o "_None"}
            /\ (AssignmentColumn[i] = name \o "_None") <=> MissingRow(i)

\* an apply returned an experiment in which one row is labelled name_None
\* and another row a cluster
C1_Witness ==
    /\ Applied /\ ModelsAsConfigured
    /\ \E i, j \in DOMAIN AssignmentColumn :
        /\ AssignmentColumn[i] = name \o "_None" /\ MissingRow(i)
        /\ AssignmentColumn[j] # name \o "_None" /\ ~MissingRow(j)

\* the experiment that the last estimate fitted: the one given, filtered
EstimatedOn ==
    IF call.subset = "" THEN exps[call.experiment] ELSE Query(exps[call.experiment], call.subset).exp

\* the last call was an estimate that returned normally
EstimateDone == call.op = "estimate" /\ call.err = NoError

\* C2: after an estimate, the stored models are those of the groups of the
\* experiment it fitted, each fitted by this call; and the models that an
\* apply uses were all fitted by the latest estimate that stored a model.
C2_EstimateReplacesModels ==
    /\ EstimateDone =>
        /\ DOMAIN _kmeans = Range(Groups(EstimatedOn, by))
        /\ \A g \in DOMAIN _kmeans : _kmeans[g].made = ncalls
    /\ Applied =>
        \A g \in Range(Groups(exps[call.experiment], by)), h \in DOMAIN _kmeans :
            _kmeans[g].made >= _kmeans[h].made

\* C3: a call of estimate or apply returns normally or raises a
\* CytoflowOpError or a CytoflowViewError.
C3_TypedErrors ==
    call.op \in {"estimate", "apply"} => (call.err = NoError \/ IsTyped(call.err))

\* this step is a call of the operation op
CallStep(op) == ncalls' = ncalls + 1 /\ call'.op = op

\* C4: an apply that follows a successful apply, on the same experiment,
\* returns an experiment with the same assignment column and the same
\* centers statistic.
C4_ApplyIdempotent ==
    [][(Applied /\ CallStep("apply") /\ call'.experiment = call.experiment) =>
           /\ call'.err = NoError
           /\ AssignmentColumn' = AssignmentColumn
           /\ CentersStat' = CentersStat]_vars

\* two applies returned an experiment each, and the two are equal
C4_Witness ==
    /\ Applied
    /\ \E r \in Derived : r # call.ret /\ exps[r] = exps[call.ret]

\* the by part of the index entries of the groups that e has rows of
ObservedKeys(e) == IF by = <<>> THEN {<<>>} ELSE Range(Groups(e, by))

\* the by part of the index entries of every combination of by values
ProductKeys(e) == Range(KeyProduct(e, by))

StatKeys(keys) ==
    {[by |-> g, Cluster |-> c, Channel |-> ch] :
        g \in keys, c \in 1..num_clusters, ch \in Range(channels)}

\* without by, the table has num_clusters * |channels| entries, each a number
StatWithoutBy ==
    by = <<>> =>
        /\ Cardinality(DOMAIN CentersStat) = num_clusters * Cardinality(Range(channels))
        /\ \A k \in DOMAIN CentersStat : CentersStat[k] # NaN

\* C5 as claimed: the statistic apply returns is indexed by the key
\* combinations that rows of the experiment have, by cluster and by channel.
C5_StatIndexObserved ==
    Applied =>
        /\ DOMAIN CentersStat = StatKeys(ObservedKeys(exps[call.experiment]))
        /\ StatWithoutBy

\* C5 as amended: the statistic is indexed by every combination of the by
\* columns' values, by cluster and by channel; the entries of a combination
\* hold a number exactly when a row has the combination.
C5_StatIndexProduct ==
    Applied =>
        /\ DOMAIN CentersStat = StatKeys(ProductKeys(exps[call.experiment]))
        /\ \A k \in DOMAIN CentersStat :
            CentersStat[k] # NaN <=> k.by \in ObservedKeys(exps[call.experiment])
        /\ StatWithoutBy

\* an apply returned a statistic with an entry for a combination no row has
C5_Witness ==
    /\ Applied
    /\ \E k \in DOMAIN CentersStat :
        k.by \notin ObservedKeys(exps[call.experiment]) /\ CentersStat[k] = NaN
    /\ \E k \in DOMAIN CentersStat : CentersStat[k] # NaN

\* what the checks of estimate reject, as the operation's contract lists it:
\* x is the experiment given, subset the filter
EstimateMustReject(x, subset) ==
    \/ x = NoExp
    \/ num_clusters < 2
    \/ channels = <<>>
    \/ \E c \in Range(channels) : c \notin exps[x].columns
    \/ \E c \in DOMAIN scale : c \notin Range(channels)
    \/ \E b \in Range(by) : b \notin exps[x].columns
    \/ \E b \in Range(by) : NUnique(exps[x], b) > MaxUnique
    \/ subset # "" /\ (~Query(exps[x], subset).ok \/ Query(exps[x], subset).exp.data = <<>>)

\* C6: an estimate that one of its checks rejects raises a typed error and
\* leaves the stored models and the stored scales as they were.
C6_RejectedEstimateKeepsStorage ==
    [][(CallStep("estimate") /\ EstimateMustReject(call'.experiment, call'.subset)) =>
           /\ IsTyped(call'.err)
           /\ _kmeans' = _kmeans
           /\ _scale' = _scale]_vars

\* an estimate on an operation that holds a model was rejected for a by
\* column with more than MaxUnique values
C6_Witness ==
    /\ call.op = "estimate"
    /\ call.err = OpError("More than 100 unique values found for aggregation metadata", "N")
    /\ _kmeans # EmptyMap
    /\ _scale # EmptyMap

\* C7: estimate and apply leave the experiment given to them as it was;
\* apply returns another experiment, which carries the new column, the
\* centers statistic and one more history entry.
C7_InputNotMutated ==
    [][((CallStep("estimate") \/ CallStep("apply")) /\ call'.experiment # NoExp) =>
           /\ exps'[call'.experiment] = exps[call'.experiment]
           /\ (call'.op = "apply" /\ call'.err = NoError) =>
                 /\ call'.ret # call'.experiment
                 /\ name \in exps'[call'.ret].columns
                 /\ <<name, "centers">> \in DOMAIN exps'[call'.ret].statistics
                 /\ Len(exps'[call'.ret].history) = Len(exps[call'.experiment].history) + 1]_vars

\* an apply returned an experiment with the new column, and the experiment
\* given to it has no such column
C7_Witness ==
    /\ Applied
    /\ name \notin exps[call.experiment].columns
    /\ name \in exps[call.ret].columns

\* C8: apply and the views' plot leave the stored models and the stored
\* scales as they were.
C8_StorageOnlyByEstimate ==
    [][(CallStep("apply") \/ CallStep("plot")) => (_kmeans' = _kmeans /\ _scale' = _scale)]_vars

\* an apply was made on an operation that holds models and scales, and a
\* plot can follow
C8_Witness ==
    /\ call.op = "apply"
    /\ _kmeans # EmptyMap /\ _scale # EmptyMap
    /\ view # NoView

\* the last entry of a sequence
Last(seq) == seq[Len(seq)]

\* the experiment given to the last call was returned by apply of the
\* operation as it is named now
GivenOwnResult ==
    /\ exps[call.experiment].history # <<>>
    /\ Last(exps[call.experiment].history).name = name

\* C9: apply raises a CytoflowOpError and returns nothing when name is unset
\* or the experiment has a column of that name; so it does when given an
\* experiment it returned.
C9_NameChecks ==
    (call.op = "apply" /\ call.experiment # NoExp) =>
        /\ (name = "" \/ name \in exps[call.experiment].columns) =>
              (call.err.type = "CytoflowOpError" /\ call.ret = NoExp)
        /\ GivenOwnResult =>
              (call.err = OpError("Experiment already has a column named", name) /\ call.ret = NoExp)

\* apply was given an experiment it returned, and raised
C9_Witness ==
    /\ call.op = "apply" /\ call.experiment # NoExp
    /\ GivenOwnResult
    /\ call.err = OpError("Experiment already has a column named", name)

\* the checks that estimate and apply share
SharedChecks ==
    {"Must set at least one channel",
     "Channel not found in the experiment",
     "Scale set for channel, but it isn't in the experiment",
     "Aggregation metadata not found in the experiment",
     "More than 100 unique values found for aggregation metadata"}

IsSharedCheck(err) == err.type = "CytoflowOpError" /\ err.what \in SharedChecks

\* the errors estimate(x) without subset may raise in this state
EstimateErrors(x) == {o.err : o \in estimate(x, "", ncalls + 1)}

\* C10: for an experiment that passes the other checks, estimate raises an
\* error of the shared checks exactly when apply does, and the same error;
\* when a channel is not a column of the experiment, the error names a
\* channel that is missing.
C10_SameValidation ==
    \A x \in DOMAIN exps :
        (num_clusters >= 2 /\ name # "" /\ name \notin exps[x].columns) =>
            /\ (IsSharedCheck(apply(x).err) \/ \E e \in EstimateErrors(x) : IsSharedCheck(e)) =>
                  EstimateErrors(x) = {apply(x).err}
            /\ (\E c \in Range(channels) : c \notin exps[x].columns) =>
                  /\ apply(x).err.what = "Channel not found in the experiment"
                  /\ apply(x).err.arg \in Range(channels) \ exps[x].columns

\* estimate raised for the channel Z, which the experiment lacks, and apply
\* raises the same error
C10_Witness ==
    /\ call.op = "estimate" /\ call.experiment # NoExp
    /\ call.err = OpError("Channel not found in the experiment", "Z")
    /\ num_clusters >= 2 /\ name # "" /\ name \notin exps[call.experiment].columns
    /\ apply(call.experiment).err = call.err

\* the error of the check of a by column's number of values
IsTooMany(err) ==
    /\ err.type = "CytoflowOpError"
    /\ err.what = "More than 100 unique values found for aggregation metadata"

\* experiment x passes every check that estimate and apply make before
\* they count the values of the by columns
PassesEarlierChecks(x) ==
    /\ num_clusters >= 2
    /\ name # "" /\ name \notin exps[x].columns
    /\ channels # <<>>
    /\ \A c \in Range(channels) : c \in exps[x].columns
    /\ \A c \in DOMAIN scale : c \in Range(channels)
    /\ \A b \in Range(by) : b \in exps[x].columns

\* C11: a by column with more than MaxUnique values makes estimate and
\* apply raise a CytoflowOpError, the error of that check when the earlier
\* checks pass; neither raises the error of that check for a column with
\* MaxUnique values or fewer.
C11_UniqueLimit ==
    \A x \in DOMAIN exps :
        LET over == {b \in Range(by) \cap exps[x].columns : NUnique(exps[x], b) > MaxUnique}
            errs == EstimateErrors(x) \cup {apply(x).err}
        IN  /\ over # {} => \A e \in errs : e.type = "CytoflowOpError"
            /\ (over # {} /\ PassesEarlierChecks(x)) => \A e \in errs : IsTooMany(e) /\ e.arg \in over
            /\ \A e \in errs : IsTooMany(e) => e.arg \in over

\* estimate was given an experiment whose by column has exactly MaxUnique
\* values, and did not raise for the number of values
C11_Witness ==
    /\ call.op = "estimate" /\ call.experiment # NoExp
    /\ by = <<"M">>
    /\ PassesEarlierChecks(call.experiment)
    /\ NUnique(exps[call.experiment], "M") = MaxUnique
    /\ ~IsTooMany(call.err)
    /\ \E b \in exps[call.experiment].columns : NUnique(exps[call.experiment], b) > MaxUnique

\* the by part of the statistic's key for group g
GroupKey(g) == IF by = <<>> THEN <<>> ELSE g

\* the statistic just returned holds, for every group of the experiment
\* given, the inverse-scaled centroids of the group's stored model
CentroidsOfGroups ==
    \A g \in Range(Groups(exps[call.experiment], by)) :
        \A c \in 0..(num_clusters - 1) : \A j \in DOMAIN channels :
            LET k == [by |-> GroupKey(g), Cluster |-> c + 1, Channel |-> channels[j]]
            IN  /\ k \in DOMAIN CentersStat
                /\ CentersStat[k] = ScaleInverse(_scale[channels[j]], _kmeans[g].centers[c + 1][j])

\* C12: apply records, for every group, cluster and channel, the
\* inverse-scaled centroid coordinate at (group key, cluster + 1, channel),
\* whatever the kind of the group key: recording never raises, and the
\* statistic returned holds the centroids of every group.
C12_CentroidsRecorded ==
    call.op = "apply" =>
        /\ call.err # PyError("KeyError", "centers_stat.loc[g2]")
        /\ Applied => CentroidsOfGroups

\* the orders in which the elements of the sequence gs can be iterated
Orders(gs) ==
    {[i \in DOMAIN gs |-> gs[f[i]]] :
        f \in {h \in [DOMAIN gs -> DOMAIN gs] : \A i, j \in DOMAIN gs : h[i] = h[j] => i = j}}

\* C13: whatever the order in which apply iterates the groups of the
\* experiment, it computes the assignment column and the centers statistic
\* that it returned.
C13_GroupOrderIndependent ==
    Applied =>
        LET e == exps[call.experiment]
        IN  \A gs \in Orders(Groups(e, by)) :
                LET r == apply_groups(e, gs, 1, InitialAssignments(e), InitialStat(e))
                IN  /\ r.err = NoError
                    /\ r.assign = AssignmentColumn
                    /\ r.stat = CentersStat

\* an apply labelled the rows of two groups or more
C13_Witness ==
    /\ Applied
    /\ LET e == exps[call.experiment]
       IN  /\ Len(Groups(e, by)) >= 2
           /\ \A g \in Range(Groups(e, by)) :
                 \E i \in GroupIdx(e, by, g) : AssignmentColumn[i] # NoneLabel

\* C14: an estimate that raises leaves the stored models and the stored
\* scales as they were before the call, and leaves no model in the storage
\* that was never fitted.
C14_EstimateAtomic ==
    [][(CallStep("estimate") /\ call'.err # NoError) =>
           /\ _kmeans' = _kmeans
           /\ _scale' = _scale
           /\ \A g \in DOMAIN _kmeans' : _kmeans'[g].fitted]_vars

\* C15: whatever edits, estimates and applies came before, every label of
\* the column that an apply returns is name_None or name_i with i in
\* 1..num_clusters; the placeholder "(none)" is never one of them.
C15_LabelsInRange ==
    Applied =>
        \A i \in DOMAIN AssignmentColumn :
            /\ AssignmentColumn[i] # "(none)"
            /\ AssignmentColumn[i] \in {name \o "_" \o ToString(k) : k \in 1..num_clusters} \cup {NoneLabel}

\* the scale kind that an estimate made now would select for channel c
SelectedScale(c) == IF c \in DOMAIN scale THEN scale[c] ELSE default_scale

\* C16: default_view leaves name, channels, scale, num_clusters and by as
\* they were, and with them the scale kind that estimate selects for every
\* channel.
C16_DefaultViewKeepsConfig ==
    [][CallStep("default_view") =>
           /\ Config' = Config
           /\ \A c \in Range(channels) : SelectedScale(c)' = SelectedScale(c)]_vars

====
